---- MODULE Spec2Model ----
(***************************************************************************)
(* A model of DiscordBot.py: the network commands of the bot (ping with   *)
(* tcp_connect_latency, homeports with scan_port, whois with              *)
(* simple_whois_query_blocking) as they run on the single asyncio event   *)
(* loop.  One behaviour is one command invocation; the network (name      *)
(* resolution, connect outcomes, server responses, message sending) is    *)
(* the environment.                                                       *)
(***************************************************************************)
EXTENDS Integers, Sequences, FiniteSets, TLC

VARIABLES
    cmd,            \* the command invoked in this behaviour
    \* ---- cmd_homeports / scan_port
    hpc,            \* position of cmd_homeports: "idle", "gather", "done", "raised"
    semValue,       \* asyncio.Semaphore(12)._value
    semWaiters,     \* tasks suspended in semaphore.acquire(), FIFO
    ready,          \* the event loop's ready queue of scan_port tasks, FIFO
    tpc,            \* position of each scan_port task
    loopBlockedBy,  \* the task whose blocking call occupies the loop thread, or 0
    taskResult,     \* what each finished scan_port task returned (<<>> before)
    taskRaised,     \* tasks out of which an exception escaped
    results,        \* what asyncio.gather returned to cmd_homeports
    scanOpen,       \* environment: the ports of the host that accept
    scanRaise,      \* environment: the ports whose socket()/connect_ex raises
    scanSockFail,   \* environment: those of scanRaise where socket() itself raises
    scanSockets,    \* scan_port tasks whose socket is created and not closed
    \* ---- cmd_ping / tcp_connect_latency
    target,         \* input: the host argument of !ping
    portArg,        \* input: the port argument, <<>> for None, <<n>> for n
    ppc,            \* position of cmd_ping: "start", "literal", "resolving",
                    \*   "resolved", "done", "raised"
    ports_to_try,   \* the port list built from portArg
    pidx,           \* index of `p` in ports_to_try in the running loop
    resolved_ips,   \* the deduplicated addresses of the resolve-and-retry step
    ridx,           \* index of `ip` in resolved_ips
    resolveCalls,   \* calls of loop.getaddrinfo(target, None) made by cmd_ping
    praised,        \* origin of the exception that left cmd_ping, or "none"
    tcl,            \* the tcp_connect_latency call in progress
    lastProbe,      \* the tcp_connect_latency call that returned last: kept
                    \*   until the next connect attempt is dispatched
    probes,         \* the tcp_connect_latency calls made, in order, with outcome
    tclSockets,     \* sockets tcp_connect_latency has created and not closed
    \* ---- cmd_whois / simple_whois_query_blocking
    domain,         \* input: the domain argument of !whois, as characters
    wpc,            \* position: "idle", "connect1", "recv1", "connect2", "recv2",
                    \*   "returned", "done", "raised"
    wresp,          \* `resp`: what the recv loop of the current hop accumulated
    wEof,           \* the hops whose recv loop saw the peer close (b"")
    iana_text,      \* the decoded response of the root server, as lines
    whois_server,   \* the server chosen for the second hop
    whoisConns,     \* the create_connection calls made, in order
    whoisSockets,   \* sockets the lookup has open
    wraw,           \* what simple_whois_query_blocking returned
    \* ---- replies of the invocation (ctx.send), in order
    replies,
    \* ---- the network the invocation meets
    net,            \* [fixed, addrs, up]: whether resolution and reachability
                    \*   stay the same during the invocation, and if so the
                    \*   addresses of the name and the <<address, port>> pairs
                    \*   that accept a connection
    \* ---- the event loop
    otherRan        \* the loop has run a callback of another command since the
                    \*   invoked command last ran

scanVars == <<hpc, semValue, semWaiters, ready, tpc, loopBlockedBy, taskResult,
              taskRaised, results, scanOpen, scanRaise, scanSockFail, scanSockets>>

-----------------------------------------------------------------------------
pingVars == <<target, portArg, ppc, ports_to_try, pidx, resolved_ips, ridx,
              resolveCalls, praised, tcl, lastProbe, probes, tclSockets>>

whoisVars == <<domain, wpc, wresp, wEof, iana_text, whois_server, whoisConns,
               whoisSockets, wraw>>

-----------------------------------------------------------------------------
(* Sequence helpers *)

Range(s) == {s[i] : i \in 1..Len(s)}

-----------------------------------------------------------------------------
(* cmd_homeports and scan_port *)

COMMON_PORTS ==
    <<21, 22, 23, 25, 53, 80, 110, 143, 161, 443, 445, 993, 995,
      3306, 3389, 5900, 8080, 25565, 32400>>

\* asyncio.Semaphore(12)
SemLimit == 12

\* errno values connect_ex returns instead of raising
ECONNREFUSED == 111
EAGAIN == 11

\* tasks = [scan_port(host, port, semaphore) for port in COMMON_PORTS]:
\* task i is the probe of COMMON_PORTS[i]
Tasks == 1..Len(COMMON_PORTS)
TaskPort(t) == COMMON_PORTS[t]

\* The hosts scanned: which ports accept, and on which the probe raises
\* (socket() out of descriptors on one probe, or a host name that does not
\* resolve, which makes connect_ex raise gaierror on every port).
ScanOpenSets == SUBSET {22, 80, 443}
ScanRaiseSets == {{}, {21}, {80, 25565}, Range(COMMON_PORTS)}
ScanSockFailSets == {{}, {21}, {80}}

\* conn.connect_ex((host, port)): 0 when the port accepts, an errno otherwise
ConnectEx(port) ==
    IF port \in scanOpen THEN {0} ELSE {ECONNREFUSED, EAGAIN}

\* return port, result == 0
ScanPortResultBadPort(port, rc) == <<rc, rc = 0>>
ScanPortResult(port, rc) == <<port, rc = 0>>

\* except: return port, False   (a bare except: every exception is caught)
ScanPortCatchesNone(exc) == FALSE
ScanPortCatches(exc) == TRUE

\* conn = socket.socket(AF_INET, SOCK_STREAM): the task's socket exists unless
\* socket() raised
SocketCreated(t) ==
    IF TaskPort(t) \in scanSockFail THEN scanSockets ELSE scanSockets \cup {t}

\* conn.close() follows connect_ex inside the try: it is reached when
\* connect_ex returned, and skipped when connect_ex raised (the except branch
\* returns without closing).
ScanPortCloses(raisedInConnect) == ~raisedInConnect

\* Probes holding the semaphore with an unfinished connect attempt
InFlight == {t \in Tasks : tpc[t] = "connecting"}

\* cmd_homeports up to `await asyncio.gather(*tasks)`: ctx.defer(), the
\* semaphore, one task per port scheduled in list order.
HomeportsStart ==
    /\ cmd = "homeports"
    /\ hpc = "idle"
    /\ hpc' = "gather"
    /\ semValue' = SemLimit
    /\ ready' = [i \in 1..Len(COMMON_PORTS) |-> i]
    /\ tpc' = [t \in Tasks |-> "ready"]
    /\ otherRan' = FALSE
    /\ UNCHANGED <<cmd, net, whoisVars, semWaiters, loopBlockedBy, taskResult, taskRaised,
                   results, scanOpen, scanRaise, scanSockFail, scanSockets,
                   replies, pingVars>>

\* What scan_port does from the top (or from a wake-up in acquire) to its
\* first suspension.  `async with semaphore` does not suspend when a slot is
\* free; the body then calls socket() and connect_ex() directly, with no
\* await: the loop thread stays inside the call until it returns.
ScanPortEnterUnbounded(t) ==
    /\ hpc = "gather"
    /\ ready # <<>> /\ Head(ready) = t
    /\ loopBlockedBy = 0
    /\ ready' = Tail(ready)
    /\ tpc' = [tpc EXCEPT ![t] = "connecting"]
    /\ scanSockets' = SocketCreated(t)
    /\ otherRan' = FALSE
    /\ UNCHANGED <<cmd, net, whoisVars, hpc, semValue, semWaiters, loopBlockedBy, taskResult,
                   taskRaised, results, scanOpen, scanRaise, scanSockFail,
                   replies, pingVars>>
ScanPortEnter(t) ==
    /\ hpc = "gather"
    /\ ready # <<>> /\ Head(ready) = t
    /\ loopBlockedBy = 0
    /\ ready' = Tail(ready)
    /\ IF semValue > 0
         THEN /\ semValue' = semValue - 1
              /\ tpc' = [tpc EXCEPT ![t] = "connecting"]
              /\ loopBlockedBy' = t
              /\ scanSockets' = SocketCreated(t)
              /\ UNCHANGED semWaiters
         ELSE /\ tpc' = [tpc EXCEPT ![t] = "waiting"]
              /\ semWaiters' = Append(semWaiters, t)
              /\ UNCHANGED <<semValue, loopBlockedBy, scanSockets>>
    /\ otherRan' = FALSE
    /\ UNCHANGED <<cmd, net, whoisVars, hpc, taskResult, taskRaised, results, scanOpen,
                   scanRaise, scanSockFail, replies, pingVars>>

\* The blocking call returns (or raises), conn.close(), the result tuple is
\* returned and `async with` releases the semaphore, waking the first waiter.
ScanPortReturn(t) ==
    /\ tpc[t] = "connecting"
    /\ \E rc \in ConnectEx(TaskPort(t)) :
         IF TaskPort(t) \in scanRaise
           THEN IF ScanPortCatches("OSError")
                  THEN /\ taskResult' = [taskResult EXCEPT ![t] = <<TaskPort(t), FALSE>>]
                       /\ UNCHANGED taskRaised
                  ELSE /\ taskRaised' = taskRaised \cup {t}
                       /\ UNCHANGED taskResult
           ELSE /\ taskResult' = [taskResult EXCEPT ![t] = ScanPortResult(TaskPort(t), rc)]
                /\ UNCHANGED taskRaised
    /\ scanSockets' = IF ScanPortCloses(TaskPort(t) \in scanRaise)
                        THEN scanSockets \ {t} ELSE scanSockets
    /\ tpc' = [tpc EXCEPT ![t] = "done"]
    /\ loopBlockedBy' = IF loopBlockedBy = t THEN 0 ELSE loopBlockedBy
    /\ semValue' = semValue + 1
    /\ IF semWaiters # <<>>
         THEN /\ semWaiters' = Tail(semWaiters)
              /\ ready' = Append(ready, Head(semWaiters))
         ELSE UNCHANGED <<semWaiters, ready>>
    /\ otherRan' = FALSE
    /\ UNCHANGED <<cmd, net, whoisVars, hpc, results, scanOpen, scanRaise, scanSockFail, replies,
                   pingVars>>

\* results = await asyncio.gather(*tasks): the results in the order of the
\* awaitables passed in; the first exception of a task is raised instead.
GatherResults == [i \in 1..Len(COMMON_PORTS) |-> taskResult[i]]

\* The counting loop over results, and the reply.
OpenCount(res) == Cardinality({i \in 1..Len(res) : res[i][2]})

HomeportsFinish ==
    /\ hpc = "gather"
    /\ \A t \in Tasks : tpc[t] = "done"
    /\ IF taskRaised # {}
         THEN /\ hpc' = "raised"
              /\ UNCHANGED <<results, replies>>
         ELSE /\ hpc' = "done"
              /\ results' = GatherResults
              /\ replies' = Append(replies,
                    [kind |-> "scan", open_count |-> OpenCount(GatherResults),
                     lines |-> GatherResults])
    /\ otherRan' = FALSE
    /\ UNCHANGED <<cmd, net, whoisVars, semValue, semWaiters, ready, tpc, loopBlockedBy,
                   taskResult, taskRaised, scanOpen, scanRaise, scanSockFail,
                   scanSockets, pingVars>>

ScanInit ==
    /\ hpc = "idle"
    /\ semValue = 0
    /\ semWaiters = <<>>
    /\ ready = <<>>
    /\ tpc = [t \in Tasks |-> "new"]
    /\ loopBlockedBy = 0
    /\ taskResult = [t \in Tasks |-> <<>>]
    /\ taskRaised = {}
    /\ results = <<>>
    /\ scanSockets = {}

ScanNext ==
    \/ HomeportsStart
    \/ \E t \in Tasks : ScanPortEnter(t)
    \/ \E t \in Tasks : ScanPortReturn(t)
    \/ HomeportsFinish

-----------------------------------------------------------------------------
(* tcp_connect_latency and cmd_ping *)

\* Bounds of the environment: the addresses a name can resolve to, and the
\* length of one getaddrinfo answer.
NumAddrs == 2
MaxInfos == 2

\* A host argument: a literal IP address, or a name.
Ip(i) == [kind |-> "ip", id |-> i]
Name == [kind |-> "name", id |-> 0]
Addrs == {Ip(i) : i \in 1..NumAddrs}
Targets == Addrs \cup {Name}

\* ipaddress.ip_address(target) succeeds
IsIpNever(host) == FALSE
IsIp(host) == host.kind = "ip"

\* The port argument: None, or an integer
PortInputs == {0, 22, 8080}
PortArgs == {<<>>} \cup {<<n>> : n \in PortInputs}

DefaultPorts == <<80, 443, 53, 22>>

\* if port: ports_to_try = [port]  else: ports_to_try = [80, 443, 53, 22]
PortsToTry(arg) ==
    IF arg # <<>> /\ arg[1] # 0 THEN <<arg[1]>> ELSE DefaultPorts

\* list(dict.fromkeys(resolved_ips)): first occurrences, in order
RECURSIVE Unique(_)
Unique(s) ==
    IF s = <<>> THEN <<>>
    ELSE LET init == Unique(SubSeq(s, 1, Len(s) - 1))
             last == s[Len(s)]
         IN IF last \in Range(init) THEN init ELSE Append(init, last)

\* loop.getaddrinfo(host, ...): a literal address comes back as itself; a name
\* raises (gaierror) or yields one sockaddr per entry, duplicates possible.
AddrSeqs == UNION {[1..n -> Addrs] : n \in 1..MaxInfos}
Getaddrinfo(host) ==
    IF host.kind = "ip"
      THEN {[raised |-> FALSE, infos |-> <<host>>]}
      ELSE {[raised |-> TRUE, infos |-> <<>>]}
           \cup {[raised |-> FALSE, infos |-> s] : s \in AddrSeqs}

\* How a connect attempt dispatched to the executor ends
ConnectOutcomes == {"ok", "refused", "timeout"}

\* A network that may change between any two calls
NoNet == [fixed |-> FALSE, addrs |-> {}, up |-> {}]
\* The networks that stay the same during one check: the name has the
\* addresses `addrs` at every resolution, and a connect to a pair succeeds
\* exactly if the pair is in `up`.
NetPorts == {443, 22}
FixedNets == {[fixed |-> TRUE, addrs |-> a, up |-> u] :
                 a \in (SUBSET Addrs) \ {{}}, u \in SUBSET (Addrs \X NetPorts)}

\* The answers loop.getaddrinfo(host, ...) can give in the network
Resolutions(host) ==
    IF net.fixed /\ host.kind # "ip"
      THEN {[raised |-> FALSE, infos |-> q] : q \in {r \in AddrSeqs : Range(r) = net.addrs}}
      ELSE Getaddrinfo(host)

\* The ways s.connect(sockaddr) can end in the network
Connects(addr, port) ==
    IF net.fixed
      THEN IF <<addr, port>> \in net.up THEN {"ok"} ELSE {"refused", "timeout"}
      ELSE ConnectOutcomes

\* The entries of infos[from..], or n + 1 for none, at which socket.socket()
\* first succeeds; in a network that stays the same it does not fail.
FirstSockets(from, n) == IF net.fixed THEN {from} ELSE from..(n + 1)

\* except Exception: ... continue      (the loop goes on with the next entry)
TclGiveUp(infos, idx) == Len(infos) + 1
TclContinue(infos, idx) == idx + 1

\* `except Exception:` in tcp_connect_latency (both handlers)
TclCatchesTimeoutOnly(exc) == exc = "timeout"
TclCatches(exc) == exc \in {"gaierror", "oserror", "refused", "timeout"}

\* The except branch of the loop: `if s: s.close()`
TclClosesOnFailure == TRUE

\* return True, latency_ms, ip   with ip = sockaddr[0] of the current entry
SuccessIpFirst(infos, idx) == infos[1]
SuccessIp(infos, idx) == infos[idx]

\* Optional values: <<>> is None, <<v>> is v
FailResult == [ok |-> FALSE, latency |-> <<>>, ip |-> <<>>, raised |-> FALSE]
RaisedResult == [ok |-> FALSE, latency |-> <<>>, ip |-> <<>>, raised |-> TRUE]

TclIdle == [stage |-> "idle", host |-> Name, port |-> 0, infos |-> <<>>,
            idx |-> 0, elapsed |-> 0]
\* A call of tcp_connect_latency up to `await loop.getaddrinfo(...)`
TclCall(host, port) == [stage |-> "getaddrinfo", host |-> host, port |-> port,
                        infos |-> <<>>, idx |-> 0, elapsed |-> 0]
NoProbe == [host |-> Name, port |-> 0, result |-> FailResult, connected |-> <<>>,
            elapsed |-> 0, infos |-> <<>>, n |-> 0]

\* The replies of cmd_ping
Pinging == [kind |-> "pinging"]
Reachable(ip, p) == [kind |-> "reachable", ip |-> ip, port |-> p]
ResolvedReachable(ip, p) == [kind |-> "resolved_reachable", ip |-> ip, port |-> p]
NotReachable(ports) == [kind |-> "not_reachable", ports |-> ports]

\* if ok: await ctx.send(...); return
ShortCircuitNever(ok) == FALSE
ShortCircuit(ok) == ok

\* `except Exception: pass` around the resolve-and-retry step
ResolveCatchesNothing(exc) == FALSE
ResolveCatches(exc) == TRUE

\* if ok: await ctx.send(...); return     (in the resolve-and-retry loops)
ResolvedShortCircuitNever(ok) == FALSE
ResolvedShortCircuit(ok) == ok

\* await ctx.send("not reachable on tried ports ..."), the last statement
FinalSend(base, sendOk) ==
    IF sendOk
      THEN [base EXCEPT !.ppc = "done",
                        !.replies = Append(base.replies, NotReachable(ports_to_try))]
      ELSE [base EXCEPT !.ppc = "raised", !.praised = "send"]

\* What cmd_ping does when `await tcp_connect_latency(...)` hands it r, up to
\* its next await or its end: the next values of its own state, and in `call`
\* the arguments of the next tcp_connect_latency call (<<>> for none).
\* sendOk, sendOk2: whether the first and the second ctx.send of the step work.
PingAfter(r, sendOk, sendOk2) ==
    LET base == [ppc |-> ppc, pidx |-> pidx, ridx |-> ridx, replies |-> replies,
                 resolveCalls |-> resolveCalls, praised |-> praised, call |-> <<>>]
        p == ports_to_try[pidx]
    IN
    IF ppc = "literal"
      THEN IF r.raised
             THEN [base EXCEPT !.ppc = "raised", !.praised = "probe"]
           ELSE IF ShortCircuit(r.ok)
             THEN IF sendOk
                    THEN [base EXCEPT !.ppc = "done",
                              !.replies = Append(replies, Reachable(r.ip, p))]
                    ELSE [base EXCEPT !.ppc = "raised", !.praised = "send"]
           ELSE IF pidx < Len(ports_to_try)
             THEN [base EXCEPT !.pidx = pidx + 1,
                               !.call = <<target, ports_to_try[pidx + 1]>>]
           ELSE IF IsIp(target)
             THEN FinalSend(base, sendOk)
             ELSE [base EXCEPT !.ppc = "resolving",
                               !.resolveCalls = resolveCalls + 1]
      ELSE IF r.raised
             THEN FinalSend(base, sendOk)
           ELSE IF ResolvedShortCircuit(r.ok)
             THEN IF sendOk
                    THEN [base EXCEPT !.ppc = "done",
                              !.replies = Append(replies, ResolvedReachable(r.ip, p))]
                    ELSE FinalSend(base, sendOk2)
           ELSE IF pidx < Len(ports_to_try)
             THEN [base EXCEPT !.pidx = pidx + 1,
                               !.call = <<resolved_ips[ridx], ports_to_try[pidx + 1]>>]
           ELSE IF ridx < Len(resolved_ips)
             THEN [base EXCEPT !.ridx = ridx + 1, !.pidx = 1,
                               !.call = <<resolved_ips[ridx + 1], ports_to_try[1]>>]
             ELSE FinalSend(base, sendOk)

\* tcp_connect_latency returns r to cmd_ping, which runs on to its next await.
TclReturn(r, connected, infos, elapsed, open) ==
    \E nx \in {PingAfter(r, sendOk, sendOk2) : sendOk \in BOOLEAN, sendOk2 \in BOOLEAN} :
    /\ lastProbe' = [host |-> tcl.host, port |-> tcl.port, result |-> r,
                     connected |-> connected, elapsed |-> elapsed,
                     infos |-> infos, n |-> Len(probes) + 1]
    /\ probes' = Append(probes, [host |-> tcl.host, port |-> tcl.port, ok |-> r.ok,
                                 phase |-> ppc])
    /\ ppc' = nx.ppc
    /\ pidx' = nx.pidx
    /\ ridx' = nx.ridx
    /\ replies' = nx.replies
    /\ resolveCalls' = nx.resolveCalls
    /\ praised' = nx.praised
    /\ tcl' = IF nx.call = <<>> THEN TclIdle ELSE TclCall(nx.call[1], nx.call[2])
    /\ tclSockets' = open
    /\ otherRan' = FALSE
    /\ UNCHANGED <<cmd, net, whoisVars, scanVars, target, portArg, ports_to_try, resolved_ips>>

\* The `for ... in infos` loop from entry `from`: socket() raises for the
\* entries before j (caught, continue), and the connect to entry j is handed to
\* the executor; j past the end is the `return False, None, None` after the loop.
TclLoopFrom(infos, from, j, elapsed, open) ==
    IF j > from /\ ~TclCatches("oserror")
      THEN TclReturn(RaisedResult, <<>>, infos, elapsed, open)
    ELSE IF j <= Len(infos)
      THEN /\ tcl' = [tcl EXCEPT !.stage = "connect", !.infos = infos,
                                 !.idx = j, !.elapsed = elapsed]
           /\ tclSockets' = open + 1
           /\ lastProbe' = NoProbe
           /\ otherRan' = FALSE
           /\ UNCHANGED <<cmd, net, whoisVars, scanVars, target, portArg, ppc, ports_to_try, pidx,
                          resolved_ips, ridx, resolveCalls, praised, probes, replies>>
      ELSE TclReturn(FailResult, <<>>, infos, elapsed, open)

\* `await loop.getaddrinfo(host, port, type=SOCK_STREAM)` completes.
TclGetaddrinfoReturn ==
    /\ cmd = "ping"
    /\ tcl.stage = "getaddrinfo"
    /\ \E ans \in Resolutions(tcl.host) :
         IF ans.raised
           THEN TclReturn(IF TclCatches("gaierror") THEN FailResult ELSE RaisedResult,
                          <<>>, <<>>, 0, tclSockets)
           ELSE \E j \in FirstSockets(1, Len(ans.infos)) :
                    TclLoopFrom(ans.infos, 1, j, 0, tclSockets)

\* `await loop.run_in_executor(None, s.connect, sockaddr)` completes: the
\* connect succeeded, or raised after being refused or after `timeout` seconds.
TclConnectReturn ==
    /\ cmd = "ping"
    /\ tcl.stage = "connect"
    /\ \E out \in Connects(tcl.infos[tcl.idx], tcl.port) :
         LET el == tcl.elapsed + (IF out = "timeout" THEN 1 ELSE 0) IN
         IF out = "ok"
           THEN TclReturn([ok |-> TRUE, latency |-> <<el>>,
                           ip |-> <<SuccessIp(tcl.infos, tcl.idx)>>, raised |-> FALSE],
                          <<tcl.infos[tcl.idx]>>, tcl.infos, el, tclSockets - 1)
         ELSE IF ~TclCatches(out)
           THEN TclReturn(RaisedResult, <<>>, tcl.infos, el, tclSockets)
           ELSE \E j \in FirstSockets(TclContinue(tcl.infos, tcl.idx), Len(tcl.infos)) :
                    TclLoopFrom(tcl.infos, TclContinue(tcl.infos, tcl.idx), j, el,
                                IF TclClosesOnFailure THEN tclSockets - 1
                                                      ELSE tclSockets)

\* cmd_ping from its start to the first `await tcp_connect_latency(target, p)`
PingStart ==
    /\ cmd = "ping"
    /\ ppc = "start"
    /\ \E sendOk \in BOOLEAN :
         IF sendOk
           THEN /\ replies' = Append(replies, Pinging)
                /\ ports_to_try' = PortsToTry(portArg)
                /\ ppc' = "literal"
                /\ pidx' = 1
                /\ tcl' = TclCall(target, PortsToTry(portArg)[1])
                /\ UNCHANGED praised
           ELSE /\ ppc' = "raised"
                /\ praised' = "send"
                /\ UNCHANGED <<replies, ports_to_try, pidx, tcl>>
    /\ otherRan' = FALSE
    /\ UNCHANGED <<cmd, net, whoisVars, scanVars, target, portArg, resolved_ips, ridx,
                   resolveCalls, lastProbe, probes, tclSockets>>

\* `infos = await loop.getaddrinfo(target, None)` completes, the candidates
\* are deduplicated and the first of them is probed.
PingResolveReturn ==
    /\ cmd = "ping"
    /\ ppc = "resolving"
    /\ \E ans \in Resolutions(target), sendOk \in BOOLEAN :
         LET base == [ppc |-> ppc, pidx |-> pidx, ridx |-> ridx, replies |-> replies,
                      resolveCalls |-> resolveCalls, praised |-> praised, call |-> <<>>]
             ips == Unique(ans.infos)
             nx == IF ans.raised
                     THEN IF ResolveCatches("gaierror")
                            THEN FinalSend(base, sendOk)
                            ELSE [base EXCEPT !.ppc = "raised", !.praised = "resolve"]
                   ELSE IF ips = <<>>
                     THEN FinalSend(base, sendOk)
                     ELSE [base EXCEPT !.ppc = "resolved", !.ridx = 1, !.pidx = 1,
                                       !.call = <<ips[1], ports_to_try[1]>>]
         IN /\ resolved_ips' = IF ans.raised THEN resolved_ips ELSE ips
            /\ ppc' = nx.ppc
            /\ pidx' = nx.pidx
            /\ ridx' = nx.ridx
            /\ replies' = nx.replies
            /\ praised' = nx.praised
            /\ tcl' = IF nx.call = <<>> THEN TclIdle ELSE TclCall(nx.call[1], nx.call[2])
    /\ otherRan' = FALSE
    /\ UNCHANGED <<cmd, net, whoisVars, scanVars, target, portArg, ports_to_try, resolveCalls,
                   lastProbe, probes, tclSockets>>

PingInit ==
    /\ ppc = "start"
    /\ ports_to_try = <<>>
    /\ pidx = 0
    /\ resolved_ips = <<>>
    /\ ridx = 0
    /\ resolveCalls = 0
    /\ praised = "none"
    /\ tcl = TclIdle
    /\ lastProbe = NoProbe
    /\ probes = <<>>
    /\ tclSockets = 0

PingNext ==
    \/ PingStart
    \/ TclGetaddrinfoReturn
    \/ TclConnectReturn
    \/ PingResolveReturn

-----------------------------------------------------------------------------
(* simple_whois_query_blocking and cmd_whois *)

\* Bound: the chunks (lines) one server sends before it closes
MaxLines == 2

\* Text is a sequence of characters; runs of characters that no operation
\* here takes apart ("whois:", a host name) are written as one element.
\* str.strip(): leading and trailing whitespace removed
RECURSIVE StripLeft(_)
StripLeft(s) == IF s # <<>> /\ s[1] = " " THEN StripLeft(Tail(s)) ELSE s
RECURSIVE StripRight(_)
StripRight(s) ==
    IF s # <<>> /\ s[Len(s)] = " " THEN StripRight(SubSeq(s, 1, Len(s) - 1)) ELSE s
Strip(s) == StripLeft(StripRight(s))

Domains == {<<>>, <<" ">>, <<"example.com">>, <<" ", "example.com", " ">>}

\* query = domain + "\r\n"
QueryNoCrlf(d) == d
Query(d) == Append(d, "\r\n")

RootServer == <<"whois.iana.org">>
FallbackServer == <<"whois.arin.net">>
WhoisPort == 43

\* The lines a root server may send: a referral, one in upper case, one with
\* nothing after the colon, one that is indented, one with an undecodable
\* byte in front, and a line that is no referral.
RootLines ==
    { <<"whois:", " ", " ", "whois.nic.example", " ">>,
      <<"WHOIS:", "whois.other.example">>,
      <<"whois:", " ">>,
      <<" ", "whois:", "whois.nic.example">>,
      <<"\\xff", "whois:", "whois.bytes.example">>,
      <<"refer:", " ", "whois.nic.example">> }
RecordLines == { <<"Domain Name: EXAMPLE.COM">> }

\* resp.decode(errors="ignore"): undecodable bytes are dropped
DecodeLine(line) == SelectSeq(line, LAMBDA c : c # "\\xff")
Decode(resp) == [i \in 1..Len(resp) |-> DecodeLine(resp[i])]

\* line.lower().startswith("whois:")
Lower(c) == IF c = "WHOIS:" THEN "whois:" ELSE c
IsReferral(line) == line # <<>> /\ Lower(line[1]) = "whois:"

\* for line in iana_text.splitlines(): if ...: whois_server =
\* line.split(":", 1)[1].strip(); break      (None, here <<>>, if no line matches)
RECURSIVE FindServerLast(_)
FindServerLast(lines) ==
    IF lines = <<>> THEN <<>>
    ELSE IF IsReferral(lines[Len(lines)]) THEN Strip(Tail(lines[Len(lines)]))
    ELSE FindServerLast(SubSeq(lines, 1, Len(lines) - 1))
RECURSIVE FindServer(_)
FindServer(lines) ==
    IF lines = <<>> THEN <<>>
    ELSE IF IsReferral(lines[1]) THEN Strip(Tail(lines[1]))
    ELSE FindServer(Tail(lines))

\* if not whois_server: whois_server = "whois.arin.net"
SecondServer(lines) ==
    IF FindServer(lines) = <<>> THEN FallbackServer ELSE FindServer(lines)

\* What can go wrong in a hop, by the exception raised
WhoisConnectErrors == {"ConnectionRefusedError", "gaierror", "timeout"}
WhoisIoErrors == {"ConnectionResetError", "timeout"}

\* except Exception as e: return f"WHOIS error: {type(e).__name__}: {e}"
WhoisCatchesTimeoutOnly(exc) == exc = "timeout"
WhoisCatches(exc) == TRUE

EmptyDomain == [kind |-> "empty", type |-> "", text |-> <<>>]
WhoisError(exc) == [kind |-> "error", type |-> exc, text |-> <<>>]
WhoisText(resp) == [kind |-> "text", type |-> "", text |-> Decode(resp)]
NoRaw == [kind |-> "none", type |-> "", text |-> <<>>]

Conn(server) == [server |-> server, port |-> WhoisPort, sent |-> <<>>]

\* An exception inside the try block: the returned error text, or the
\* exception leaving the function (and then cmd_whois).
WhoisFailed(exc) ==
    IF WhoisCatches(exc)
      THEN /\ wraw' = WhoisError(exc)
           /\ wpc' = "returned"
      ELSE /\ wpc' = "raised"
           /\ UNCHANGED wraw

\* loop.run_in_executor(None, simple_whois_query_blocking, domain): the lookup
\* runs on a worker thread and cmd_whois is suspended in the await.
WhoisInLoopThread == FALSE
WhoisInExecutor == TRUE

\* The positions in which the lookup is on the network
WhoisHops == {"connect1", "recv1", "connect2", "recv2"}

\* cmd_whois to its await, and the lookup to its first create_connection
WhoisStart ==
    /\ cmd = "whois"
    /\ wpc = "idle"
    /\ IF Strip(domain) = <<>>
         THEN /\ wraw' = EmptyDomain
              /\ wpc' = "returned"
              /\ UNCHANGED whoisConns
         ELSE /\ wpc' = "connect1"
              /\ whoisConns' = Append(whoisConns, Conn(RootServer))
              /\ UNCHANGED wraw
    /\ otherRan' = FALSE
    /\ UNCHANGED <<cmd, net, scanVars, pingVars, domain, wresp, wEof, iana_text,
                   whois_server, whoisSockets, replies>>

\* socket.create_connection(...) and s.sendall(query.encode()) of a hop
WhoisConnectOk ==
    /\ wpc \in {"connect1", "connect2"}
    /\ whoisSockets' = whoisSockets + 1
    /\ whoisConns' = [whoisConns EXCEPT ![Len(whoisConns)].sent = Query(Strip(domain))]
    /\ wresp' = <<>>
    /\ wpc' = IF wpc = "connect1" THEN "recv1" ELSE "recv2"
    /\ otherRan' = FALSE
    /\ UNCHANGED <<cmd, net, scanVars, pingVars, domain, wEof, iana_text, whois_server,
                   wraw, replies>>

\* create_connection raises: there is no socket
WhoisConnectFails ==
    /\ wpc \in {"connect1", "connect2"}
    /\ \E exc \in WhoisConnectErrors : WhoisFailed(exc)
    /\ otherRan' = FALSE
    /\ UNCHANGED <<cmd, net, scanVars, pingVars, domain, wresp, wEof, iana_text,
                   whois_server, whoisConns, whoisSockets, replies>>

\* data = s.recv(4096) returns bytes: resp += data
WhoisRecvData ==
    /\ wpc \in {"recv1", "recv2"}
    /\ Len(wresp) < MaxLines
    /\ \E line \in (IF wpc = "recv1" THEN RootLines ELSE RecordLines) :
          wresp' = Append(wresp, line)
    /\ otherRan' = FALSE
    /\ UNCHANGED <<cmd, net, scanVars, pingVars, domain, wpc, wEof, iana_text,
                   whois_server, whoisConns, whoisSockets, wraw, replies>>

\* The `with` block is left: the socket is closed
WhoisWithCloses == TRUE

\* if not data: break      (the recv loop ends only on b"", the peer's close)
\* After the first hop the referral is looked up and the second connection is
\* made; after the second the decoded text is returned.
WhoisRecvEof ==
    /\ wpc \in {"recv1", "recv2"}
    /\ whoisSockets' = IF WhoisWithCloses THEN whoisSockets - 1 ELSE whoisSockets
    /\ wEof' = wEof \cup {wpc}
    /\ IF wpc = "recv1"
         THEN /\ iana_text' = Decode(wresp)
              /\ whois_server' = SecondServer(Decode(wresp))
              /\ whoisConns' = Append(whoisConns, Conn(SecondServer(Decode(wresp))))
              /\ wpc' = "connect2"
              /\ UNCHANGED wraw
         ELSE /\ wraw' = WhoisText(wresp)
              /\ wpc' = "returned"
              /\ UNCHANGED <<iana_text, whois_server, whoisConns>>
    /\ otherRan' = FALSE
    /\ UNCHANGED <<cmd, net, scanVars, pingVars, domain, wresp, replies>>

\* sendall or recv raises inside the `with` block
WhoisIoFails ==
    /\ wpc \in {"recv1", "recv2"}
    /\ whoisSockets' = IF WhoisWithCloses THEN whoisSockets - 1 ELSE whoisSockets
    /\ \E exc \in WhoisIoErrors : WhoisFailed(exc)
    /\ otherRan' = FALSE
    /\ UNCHANGED <<cmd, net, scanVars, pingVars, domain, wresp, wEof, iana_text,
                   whois_server, whoisConns, replies>>

\* The await in cmd_whois completes: the text is cut to the message size and
\* sent.
WhoisReply ==
    /\ wpc = "returned"
    /\ wpc' = "done"
    /\ replies' = Append(replies, [kind |-> "whois", raw |-> wraw])
    /\ otherRan' = FALSE
    /\ UNCHANGED <<cmd, net, scanVars, pingVars, domain, wresp, wEof, iana_text,
                   whois_server, whoisConns, whoisSockets, wraw>>

WhoisInit ==
    /\ wpc = "idle"
    /\ wresp = <<>>
    /\ wEof = {}
    /\ iana_text = <<>>
    /\ whois_server = <<>>
    /\ whoisConns = <<>>
    /\ whoisSockets = 0
    /\ wraw = NoRaw

WhoisNext ==
    \/ WhoisStart
    \/ WhoisConnectOk
    \/ WhoisConnectFails
    \/ WhoisRecvData
    \/ WhoisRecvEof
    \/ WhoisIoFails
    \/ WhoisReply

-----------------------------------------------------------------------------

\* The command is suspended in an await (or, in a scan, its tasks are queued).
Awaiting ==
    \/ hpc = "gather"
    \/ tcl.stage \in {"getaddrinfo", "connect"}
    \/ ppc = "resolving"
    \/ wpc \in WhoisHops

\* The loop thread is inside a blocking call: the connect_ex of a scan_port
\* task, or a WHOIS lookup that was not handed to the executor.
LoopBlocked ==
    \/ loopBlockedBy # 0
    \/ wpc \in WhoisHops /\ ~WhoisInExecutor

\* The event loop runs something else that is ready: the handler of another
\* command or event.  It can do so only between the steps of its coroutines.
LoopRunsOther ==
    /\ Awaiting
    /\ ~LoopBlocked
    /\ ~otherRan
    /\ otherRan' = TRUE
    /\ UNCHANGED <<cmd, net, scanVars, pingVars, whoisVars, replies>>

vars == <<cmd, net, scanVars, pingVars, whoisVars, replies, otherRan>>

\* One command is invoked, with its arguments and the host it meets.
Init ==
    /\ cmd \in {"ping", "homeports", "whois"}
    /\ ScanInit
    /\ PingInit
    /\ WhoisInit
    /\ otherRan = FALSE
    /\ net = NoNet
    /\ domain \in (IF cmd = "whois" THEN Domains ELSE {<<>>})
    /\ replies = <<>>
    /\ IF cmd = "homeports"
         THEN /\ scanOpen \in ScanOpenSets
              /\ scanRaise \in ScanRaiseSets
              /\ scanSockFail \in {f \in ScanSockFailSets : f \subseteq scanRaise}
         ELSE /\ scanOpen = {}
              /\ scanRaise = {}
              /\ scanSockFail = {}
    /\ IF cmd = "ping"
         THEN /\ target \in Targets
              /\ portArg \in PortArgs
         ELSE /\ target = Name
              /\ portArg = <<>>

Next == ScanNext \/ PingNext \/ WhoisNext \/ LoopRunsOther

Spec == Init /\ [][Next]_vars

\* A ping of the name in a network that stays the same during the check
InitFixed ==
    /\ cmd = "ping"
    /\ ScanInit
    /\ PingInit
    /\ WhoisInit
    /\ otherRan = FALSE
    /\ net \in FixedNets
    /\ domain = <<>>
    /\ replies = <<>>
    /\ scanOpen = {}
    /\ scanRaise = {}
    /\ scanSockFail = {}
    /\ target = Name
    /\ portArg \in PortArgs

SpecFixed == InitFixed /\ [][PingNext]_vars

\* The steps of the invoked command
CommandStep == ScanNext \/ PingNext \/ WhoisNext

\* Every await of the command completes: each connect attempt, resolution and
\* read returns (with a result or an error), and a ready coroutine is resumed.
\* What the loop runs for other commands in between changes nothing of the
\* invoked command and is left to stuttering steps.
FairSpec == Init /\ [][CommandStep]_vars /\ WF_vars(CommandStep)

-----------------------------------------------------------------------------
(* C1: during a homeports scan at most SemLimit (12) probes hold the        *)
(* semaphore with an unfinished connect attempt.                            *)
C1_AtMostLimitInFlight == Cardinality(InFlight) <= SemLimit

\* A scan in progress with a probe in flight after more than SemLimit probes
\* have been started.
C1_Witness ==
    /\ InFlight # {}
    /\ Cardinality({t \in Tasks : tpc[t] = "done"}) > SemLimit

(* C2: the scan returns one result per port of the list, the i-th result    *)
(* being for the i-th port, whatever each probe's outcome.                  *)
C2_ResultsInPortOrder ==
    /\ \A t \in Tasks : tpc[t] = "done" => taskResult[t][1] = COMMON_PORTS[t]
    /\ hpc = "done" =>
          /\ Len(results) = Len(COMMON_PORTS)
          /\ \A i \in 1..Len(COMMON_PORTS) : results[i][1] = COMMON_PORTS[i]

\* A finished scan that saw an open port, a closed port and a probe that raised.
C2_Witness ==
    /\ hpc = "done"
    /\ scanRaise # {}
    /\ \E i \in 1..Len(results) : results[i][2]
    /\ \E i \in 1..Len(results) : ~results[i][2] /\ results[i][1] \notin scanRaise

(* C3: probes of different ports run concurrently: whenever a probe is in   *)
(* flight, the semaphore has a free slot and another probe is next in the   *)
(* ready queue, that probe can start its connect attempt.                   *)
C3_ProbesRunConcurrently ==
    \A t \in Tasks :
        (InFlight # {} /\ semValue > 0 /\ ready # <<>> /\ Head(ready) = t)
            => ENABLED ScanPortEnter(t)

-----------------------------------------------------------------------------
(* Properties of cmd_ping and tcp_connect_latency *)

Succeeded == {i \in 1..Len(probes) : probes[i].ok}
LiteralProbe(i) == [host |-> target, port |-> ports_to_try[i], ok |-> FALSE,
                    phase |-> "literal"]

(* C4: the reachability check short-circuits: a probe that succeeded is the *)
(* last probe of the invocation, no probe is started after it, and after a  *)
(* success on the literal target no address resolution is made.             *)
C4_ShortCircuit ==
    \A i \in Succeeded :
        /\ i = Len(probes)
        /\ tcl.stage = "idle"
        /\ ppc \in {"done", "raised"}
        /\ probes[i].phase = "literal" => resolveCalls = 0

\* A name target with the default list reached on a port that is not the last.
C4_Witness ==
    /\ target = Name
    /\ ports_to_try = DefaultPorts
    /\ \E i \in Succeeded : i < Len(ports_to_try) /\ probes[i].phase = "literal"

(* C5: the resolve-and-retry step is entered only for a target that is not  *)
(* a literal address, after every listed port was probed on the literal     *)
(* target and failed; for a literal address there is at most one probe per  *)
(* listed port and the resolver is never invoked.                           *)
C5_ResolveOnlyAfterLiteral ==
    /\ resolveCalls > 0 =>
          /\ target \notin Addrs
          /\ Len(probes) >= Len(ports_to_try)
          /\ \A i \in 1..Len(ports_to_try) : probes[i] = LiteralProbe(i)
    /\ target \in Addrs =>
          /\ resolveCalls = 0
          /\ ppc # "resolving" /\ ppc # "resolved"
          /\ Len(probes) <= Len(ports_to_try)
          /\ \A i \in 1..Len(probes) :
                probes[i].host = target /\ probes[i].port = ports_to_try[i]

\* The resolver was invoked, the default list having failed on the name.
C5_Witness ==
    /\ resolveCalls > 0
    /\ ports_to_try = DefaultPorts
    /\ ppc = "resolved"

(* C6: when no probe of a check succeeds, the reply is `not reachable` with *)
(* exactly the port list that was attempted (the explicit port alone, or    *)
(* the default list); a failed resolution is not fatal: no exception of a   *)
(* probe or of the resolver leaves the command.                             *)
C6_UnreachedCarriesPorts ==
    /\ praised \in {"none", "send"}
    /\ (ppc = "done" /\ Succeeded = {}) =>
          /\ replies[Len(replies)] = NotReachable(ports_to_try)
          /\ Len(probes) >= Len(ports_to_try)
          /\ ports_to_try = [i \in 1..Len(ports_to_try) |-> probes[i].port]
          /\ \A i \in 1..Len(probes) : probes[i].port \in Range(ports_to_try)
          /\ \/ ports_to_try = DefaultPorts
             \/ portArg # <<>> /\ ports_to_try = <<portArg[1]>>

\* The check ended unreached after the resolution of the name had failed.
C6_Witness ==
    /\ ppc = "done"
    /\ Succeeded = {}
    /\ resolveCalls > 0
    /\ resolved_ips = <<>>
    /\ replies[Len(replies)].kind = "not_reachable"

(* C7: for every integer port the caller supplies the ports probed are      *)
(* exactly that port; the default list is used only when no port was given. *)
C7_ExplicitPortOnly ==
    ppc \notin {"start", "raised"} =>
        ports_to_try = IF portArg # <<>> THEN <<portArg[1]>> ELSE DefaultPorts

(* C8: no exception leaves a TCP probe: every failure of resolution, socket *)
(* creation or connect is a failure result, in tcp_connect_latency and in   *)
(* scan_port.                                                               *)
C8_ProbeNeverRaises ==
    /\ ~lastProbe.result.raised
    /\ praised # "probe"
    /\ taskRaised = {}
    /\ hpc # "raised"

\* A probe that returned failure after a refused connect (no time waited) on
\* the last address of a name that resolved.
C8_Witness ==
    /\ lastProbe.n > 0
    /\ ~lastProbe.result.ok
    /\ lastProbe.infos # <<>>
    /\ lastProbe.elapsed = 0
    /\ lastProbe.host = Name

(* C9: a result of tcp_connect_latency has a latency and an address if and  *)
(* only if it reports success, and the address is that of the connect       *)
(* attempt that succeeded.                                                  *)
C9_ResultShape ==
    lastProbe.n > 0 =>
        /\ lastProbe.result.latency # <<>> <=> lastProbe.result.ok
        /\ lastProbe.result.ip # <<>> <=> lastProbe.result.ok
        /\ lastProbe.result.ok => lastProbe.result.ip = lastProbe.connected

\* Success on a later address after the connect to a different first one failed.
C9_Witness ==
    /\ lastProbe.n > 0
    /\ lastProbe.result.ok
    /\ lastProbe.connected # <<lastProbe.infos[1]>>

(* C10: a probe where nothing listens returns failure with no latency after *)
(* waiting for at most one connect timeout, whatever the target resolves to.*)
C10_AtMostOneTimeout ==
    (lastProbe.n > 0 /\ ~lastProbe.result.ok) =>
        /\ lastProbe.result.latency = <<>>
        /\ lastProbe.elapsed <= 1

-----------------------------------------------------------------------------
(* Properties of sockets and of the WHOIS lookup *)

(* C11: every socket a command opens is closed by the time the operation    *)
(* that opened it has returned: the per-address sockets of                  *)
(* tcp_connect_latency, the socket of scan_port (also when the connect call *)
(* raises), and both WHOIS connections.                                     *)
C11_SocketsClosed ==
    /\ \A t \in Tasks : tpc[t] = "done" => t \notin scanSockets
    /\ tcl.stage # "connect" => tclSockets = 0
    /\ wpc \in {"returned", "done", "raised"} => whoisSockets = 0

(* C12: the WHOIS lookup never raises: a connection error, timeout or       *)
(* send/receive error on either hop becomes a returned text naming the      *)
(* error.                                                                   *)
C12_WhoisNeverRaises ==
    /\ wpc # "raised"
    /\ (wpc \in {"returned", "done"} /\ wraw.kind # "empty"
            /\ wEof # {"recv1", "recv2"}) =>
          /\ wraw.kind = "error"
          /\ wraw.type \in WhoisConnectErrors \cup WhoisIoErrors

\* A lookup that returned an error text for a failure of the second hop.
C12_Witness ==
    /\ wpc = "done"
    /\ wraw.kind = "error"
    /\ wEof = {"recv1"}

Referrals == {i \in 1..Len(iana_text) : IsReferral(iana_text[i])}
FirstReferral == CHOOSE i \in Referrals : \A j \in Referrals : i <= j
FirstRemainder == Strip(Tail(iana_text[FirstReferral]))

(* C13 (as claimed): the second hop contacts the trimmed remainder of the   *)
(* first `whois:` line of the root response, and the fallback               *)
(* whois.arin.net if and only if the response has no `whois:` line.         *)
C13_ReferralOrFallback ==
    Len(whoisConns) = 2 =>
        /\ Referrals # {} => whoisConns[2].server = FirstRemainder
        /\ whoisConns[2].server = FallbackServer <=> Referrals = {}

(* C13 (amended): the second hop contacts the trimmed remainder of the      *)
(* first `whois:` line if there is such a line and its remainder is not     *)
(* empty, and the fallback whois.arin.net otherwise.                        *)
C13_ReferralOrFallbackNonEmpty ==
    Len(whoisConns) = 2 =>
        whoisConns[2].server =
            IF Referrals # {} /\ FirstRemainder # <<>>
              THEN FirstRemainder ELSE FallbackServer

\* The fallback chosen although the response has a `whois:` line later on,
\* the first one being empty after the colon.
C13_Witness ==
    /\ Len(whoisConns) = 2
    /\ Cardinality(Referrals) = 2
    /\ FirstRemainder = <<>>
    /\ whoisConns[2].server = FallbackServer

(* C17: a lookup of a non-empty domain opens at most two connections: first *)
(* whois.iana.org:43, then one server on port 43, both sent the same        *)
(* CRLF-terminated query; the second only after the root response was read  *)
(* to the peer's close, and never when the root hop failed.                 *)
C17_TwoHopsInOrder ==
    /\ Len(whoisConns) <= 2
    /\ Len(whoisConns) >= 1 =>
          /\ Strip(domain) # <<>>
          /\ whoisConns[1].server = RootServer
          /\ whoisConns[1].port = 43
          /\ whoisConns[1].sent \in {<<>>, Append(Strip(domain), "\r\n")}
    /\ Len(whoisConns) = 2 =>
          /\ "recv1" \in wEof
          /\ whoisConns[2].port = 43
          /\ whoisConns[1].sent = Append(Strip(domain), "\r\n")
          /\ whoisConns[2].sent \in {<<>>, whoisConns[1].sent}
    /\ (wraw.kind = "error" /\ "recv1" \notin wEof) => Len(whoisConns) = 1

\* Both hops made and answered for a domain given with spaces around it.
C17_Witness ==
    /\ Len(whoisConns) = 2
    /\ whoisConns[2].sent # <<>>
    /\ domain # Strip(domain)
    /\ wraw.kind = "text"

\* The i-th probe of an invocation, were all before it to fail: the listed
\* ports against the target, then the listed ports against each candidate.
ExpectedHost(i) ==
    IF i <= Len(ports_to_try)
      THEN target
      ELSE resolved_ips[((i - Len(ports_to_try) - 1) \div Len(ports_to_try)) + 1]
ExpectedPort(i) == ports_to_try[((i - 1) % Len(ports_to_try)) + 1]

(* C18: the probes of one reachability check are serial and ordered: at     *)
(* most one connect attempt is open, every probe but the last returned      *)
(* failure, a probe in progress follows failures only, and the i-th probe   *)
(* is for the i-th pair of the order literal target x listed ports, then    *)
(* each resolved candidate in discovery order x listed ports.               *)
C18_SerialInOrder ==
    /\ tclSockets <= 1
    /\ \A i \in 1..Len(probes) :
          /\ probes[i].host = ExpectedHost(i)
          /\ probes[i].port = ExpectedPort(i)
          /\ i < Len(probes) => ~probes[i].ok
    /\ tcl.stage # "idle" =>
          /\ Succeeded = {}
          /\ tcl.host = ExpectedHost(Len(probes) + 1)
          /\ tcl.port = ExpectedPort(Len(probes) + 1)

\* The second port of the second candidate is being probed, after the four
\* ports of the name and the four ports of the first candidate.
C18_Witness ==
    /\ Len(ports_to_try) = 4
    /\ Len(resolved_ips) = 2
    /\ Len(probes) = 9
    /\ tcl.stage = "connect"
    /\ tcl.host = resolved_ips[2]
    /\ tcl.port = ports_to_try[2]

\* Some address of the name accepts no connection on any listed port and
\* another address of the name accepts one on a listed port.
PrimaryDown(a) == \A i \in 1..Len(ports_to_try) : <<a, ports_to_try[i]>> \notin net.up
SecondaryUp(b) == \E i \in 1..Len(ports_to_try) : <<b, ports_to_try[i]>> \in net.up
PrimaryDownSecondaryUp ==
    \E a, b \in net.addrs : a # b /\ PrimaryDown(a) /\ SecondaryUp(b)
RetrySucceeded == \E i \in 1..Len(probes) : probes[i].phase = "resolved" /\ probes[i].ok

Verdicts == {i \in 1..Len(replies) :
                replies[i].kind \in {"reachable", "resolved_reachable", "not_reachable"}}

(* C20: a ping invocation sends at most one verdict, and "not reachable" is *)
(* sent only if every probe of the invocation failed.                       *)
C20_VerdictConsistent ==
    /\ Cardinality(Verdicts) <= 1
    /\ (\E i \in Verdicts : replies[i].kind = "not_reachable") => Succeeded = {}

-----------------------------------------------------------------------------
(* Properties of the event loop *)

(* C14: while a WHOIS lookup is on the network (either hop) the event loop  *)
(* is not stalled: it can run another command before the lookup returns.    *)
C14_WhoisDoesNotStallLoop ==
    (wpc \in WhoisHops /\ ~otherRan) => ENABLED LoopRunsOther

\* Another command ran while the lookup was reading the second response.
C14_Witness ==
    /\ wpc = "recv2"
    /\ otherRan

(* C15: no TCP probe connects on the event loop: while the connect attempt  *)
(* of a probe of ping (tcp_connect_latency) or of the scan (scan_port) is   *)
(* outstanding, the loop can run other tasks and commands.                  *)
C15_ProbesDoNotStallLoop ==
    ((tcl.stage = "connect" \/ InFlight # {}) /\ ~otherRan)
        => ENABLED LoopRunsOther

-----------------------------------------------------------------------------
(* Termination with a reply *)

FinalReplyKinds == {"reachable", "resolved_reachable", "not_reachable", "scan", "whois"}
FinalReplySent == \E i \in 1..Len(replies) : replies[i].kind \in FinalReplyKinds
SendFailed == praised = "send"

(* C16: every invocation of ping, homeports and whois eventually sends a    *)
(* final reply, provided every connect attempt, resolution and read returns *)
(* and no send fails.                                                       *)
C16_EventuallyReplies == <>(FinalReplySent \/ SendFailed)

\* A ping whose every probe failed and whose resolution raised has replied.
C16_Witness ==
    /\ cmd = "ping"
    /\ resolveCalls = 1
    /\ resolved_ips = <<>>
    /\ Succeeded = {}
    /\ FinalReplySent

====
